---- MODULE Spec2Model ----
\* Model of the job execution orchestrator of the agentic research service:
\* AgentOrchestrator.execute_research_goal driving ReActAgent.execute_loop
\* against the Redis store, the audit trail and the search / extraction tools.
EXTENDS Integers, Sequences, FiniteSets, TLC

\* ---------------------------------------------------------------- bounds
MaxQueries == 2          \* planned search queries in a plan
MaxStoreFailures == 1    \* store writes that may fail during one job
MaxFound == 8            \* sources the planned queries of a job have found
MaxGoalWords == 3        \* words of a goal given to the heuristic planner

\* ---------------------------------------------------------------- program constants
MIN_YEAR == 1990                 \* Policies.min_year
MIN_CITATIONS == 5               \* Policies.min_citations
RELEVANCE_THRESHOLD == 50        \* relevance_threshold = 0.50, in hundredths
MIN_TARGET_SOURCES == 5          \* min_target_sources
REFINEMENT_LIMIT == 2            \* new_queries[...][:2]
EXPANSION_LIMIT == 2             \* expansion_queries[:2]
EXPANSION_VARIANTS == 2          \* variants[:2]
EXPANSION_QUERY_CAP == 4         \* return expansion_queries[:4]

\* plan["max_sources"] values execute_loop is run with.  execute_loop takes the
\* plan as an argument; the planner's depth map yields 10, 15, 30 or 50, and a
\* small value is used here so that the refinement test (found < max_sources
\* div 2) and the truncation to max_sources both go either way with the short
\* result lists below.
PlanMaxSources == {4}

\* ---------------------------------------------------------------- candidates
\* The papers the search backend can return.  score is what
\* RelevanceScorer.batch_score yields for the paper under the job's goal,
\* in hundredths.  G1b is the paper of G1 as a second record of the backend:
\* the same title under another url.
Paper ==
  [ G1  |-> [url |-> "u1", title |-> "t1", year |-> 2020, citations |-> 50,  score |-> 80],
    G2  |-> [url |-> "u2", title |-> "t2", year |-> 2021, citations |-> 10,  score |-> 60],
    G3  |-> [url |-> "u3", title |-> "t3", year |-> 2019, citations |-> 20,  score |-> 55],
    Old |-> [url |-> "u4", title |-> "t4", year |-> 1985, citations |-> 100, score |-> 70],
    Low |-> [url |-> "u5", title |-> "t5", year |-> 2022, citations |-> 8,   score |-> 30],
    G1b |-> [url |-> "u6", title |-> "t1", year |-> 2021, citations |-> 30,  score |-> 75] ]

Candidates == DOMAIN Paper

\* result lists a successful search can carry (never empty: an empty list is
\* turned into the NO_RESULTS failure result by SearchTool.execute)
ResultLists == { <<"G1", "G2", "G3">>, <<"G1b", "Old">>, <<"Low">> }

\* outcomes of SearchTool.execute: a success result, the NO_RESULTS failure
\* result, or ToolExecutionError raised on timeout / connection error
SearchOutcomes ==
  { [kind |-> "ok", results |-> rl] : rl \in ResultLists }
    \cup { [kind |-> "fail", results |-> <<>>], [kind |-> "raise", results |-> <<>>] }

\* outcomes of ExtractionTool.execute
ExtractOutcomes == { "ok", "fail", "raise" }

\* outcomes of LLMClient.generate_completion in adaptive refinement: the
\* number of usable query lines in the answer, or -1 when it raises
RefinementOutcomes == { -1 } \cup (0 .. REFINEMENT_LIMIT)

\* ---------------------------------------------------------------- helpers
Urls(seq) == { Paper[seq[k]].url : k \in DOMAIN seq }

Min(a, b) == IF a < b THEN a ELSE b

Range(seq) == { seq[k] : k \in DOMAIN seq }

Take(seq, n) == SubSeq(seq, 1, Min(n, Len(seq)))

RECURSIVE Filter(_, _)
Filter(seq, keep) ==
  IF seq = <<>> THEN <<>>
  ELSE (IF Head(seq) \in keep THEN <<Head(seq)>> ELSE <<>>) \o Filter(Tail(seq), keep)

\* ExecutionStatus, in declaration order
StatusOrder ==
  << "INITIALIZING", "PLANNING", "SEARCHING", "VALIDATING", "EXTRACTING",
     "SYNTHESIZING", "COMPLETED" >>

Rank(s) == CHOOSE k \in DOMAIN StatusOrder : StatusOrder[k] = s

\* AgentState.__init__
NewAgentState ==
  [ status |-> "INITIALIZING", current_phase |-> "INITIALIZING",
    sources_found |-> <<>>, sources_validated |-> <<>>,
    extractions_complete |-> <<>> ]

\* AuditEntry as AuditLogger.log_decision builds it; ref is the index the
\* decision string carries (query / source number), 0 when it carries none
AuditEntry(phase, decision, ref) ==
  [ phase |-> phase, decision |-> decision, ref |-> ref ]

\* ---------------------------------------------------------------- the store
\* RedisStorage keys of one job.  hasState tells whether agent_state:{job}
\* is set; state is its content.
EmptyStore ==
  [ job |-> FALSE, hasState |-> FALSE, state |-> NewAgentState,
    sources |-> <<>>, extractions |-> <<>>, audit |-> <<>>, results |-> FALSE ]

\* one store write
WAudit(phase, decision, ref) == [op |-> "audit", entry |-> AuditEntry(phase, decision, ref)]
WJob == [op |-> "create_job"]
WState(st) == [op |-> "save_agent_state", state |-> st]
WSource(c) == [op |-> "append_source", source |-> c]
WSources(seq) == [op |-> "save_sources", sources |-> seq]
WExtraction(x) == [op |-> "append_extraction", extraction |-> x]
WResults == [op |-> "save_results"]

ApplyWrite(st, w) ==
  CASE w.op = "audit" -> [st EXCEPT !.audit = Append(@, w.entry)]
    [] w.op = "create_job" -> [st EXCEPT !.job = TRUE]
    [] w.op = "save_agent_state" -> [st EXCEPT !.hasState = TRUE, !.state = w.state]
    [] w.op = "append_source" -> [st EXCEPT !.sources = Append(@, w.source)]
    [] w.op = "save_sources" -> [st EXCEPT !.sources = w.sources]
    [] w.op = "append_extraction" -> [st EXCEPT !.extractions = Append(@, w.extraction)]
    [] w.op = "save_results" -> [st EXCEPT !.results = TRUE]

RECURSIVE ApplyWrites(_, _, _)
ApplyWrites(st, ws, n) ==
  IF n = 0 \/ ws = <<>> THEN st
  ELSE ApplyWrites(ApplyWrite(st, Head(ws)), Tail(ws), n - 1)

\* StateManager.checkpoint of a state read by StateManager.get_state
SourceWrites(seq) == [k \in 1 .. Len(seq) |-> WSource(seq[k])]


\* ---------------------------------------------------------------- governance and scoring
\* SourceValidator.validate_source(...).is_valid under the default Policies
IsValid(c) ==
  /\ ~(Paper[c].year < MIN_YEAR)
  /\ ~(Paper[c].citations < MIN_CITATIONS)

\* SourceValidator.validate_all_sources
validate_all_sources(seq) == Filter(seq, { c \in Candidates : IsValid(c) })

\* the relevance test of execute_loop: score >= relevance_threshold
IsRelevant(c) == Paper[c].score >= RELEVANCE_THRESHOLD

\* the audit entries the scoring loop writes, one per scored source
ScoringAudit(seq) ==
  [ k \in 1 .. Len(seq) |->
      WAudit("RELEVANCE_FILTER", IF IsRelevant(seq[k]) THEN "Accepted" ELSE "Filtered", k) ]

\* the merge of one expansion result list into relevant_sources: a new source
\* is appended when it scores at or above the threshold and no source already
\* kept carries its title
RECURSIVE MergeExpansion(_, _)
MergeExpansion(rel, new) ==
  IF new = <<>> THEN rel
  ELSE LET s == Head(new)
           dup == \E k \in DOMAIN rel : Paper[rel[k]].title = Paper[s].title
       IN MergeExpansion(IF IsRelevant(s) /\ ~dup THEN Append(rel, s) ELSE rel, Tail(new))

\* ---------------------------------------------------------------- research goals
\* A text is the sequence of its words; a query is a text.  The goals a job is
\* submitted with are written in lower case, and none of their words contains
\* a keyword as a proper part, so that Python's substring test "key in
\* goal_lower" is the test that the phrase occurs as consecutive words.
Goals == { << "transformer", "attention", "mechanism" >>,
           << "blockchain", "consensus" >> }

\* str.lower on a word
Lower(w) ==
  CASE w = "BERT" -> "bert"
    [] w = "GPT"  -> "gpt"
    [] w = "T5"   -> "t5"
    [] OTHER      -> w

LowerText(text) == [k \in DOMAIN text |-> Lower(text[k])]

ContainsPhrase(text, phrase) ==
  \E k \in 1 .. (Len(text) - Len(phrase) + 1) :
     SubSeq(text, k, k + Len(phrase) - 1) = phrase

\* keyword_map, in insertion order
KeywordMap ==
  << [key |-> "transformer",
      variants |-> << <<"attention", "mechanism">>, <<"BERT">>, <<"GPT">>, <<"T5">> >>],
     [key |-> "architecture",
      variants |-> << <<"neural", "network", "design">>, <<"model", "structure">>,
                      <<"encoder", "decoder">> >>],
     [key |-> "optimization",
      variants |-> << <<"training", "efficiency">>, <<"inference", "speed">>,
                      <<"computational", "efficiency">> >>],
     [key |-> "efficiency",
      variants |-> << <<"parameter", "reduction">>, <<"pruning">>, <<"quantization">>,
                      <<"distillation">> >>],
     [key |-> "improvement",
      variants |-> << <<"advances">>, <<"enhancement">>, <<"breakthrough">>,
                      <<"innovation">> >>],
     [key |-> "neural",
      variants |-> << <<"deep", "learning">>, <<"machine", "learning">>,
                      <<"representation", "learning">> >>] >>

GenericExpansionQueries ==
  << <<"transformer", "model", "architecture">>,
     <<"neural", "network", "optimization">>,
     <<"deep", "learning", "efficiency">>,
     <<"attention", "mechanism", "improvements">> >>

\* the inner loop over variants[:2] of one keyword
RECURSIVE AddVariants(_, _, _, _)
AddVariants(goal_lower, entry, v, queries) ==
  IF v > Min(EXPANSION_VARIANTS, Len(entry.variants)) THEN queries
  ELSE LET new_query == << entry.key >> \o entry.variants[v]
       IN AddVariants(goal_lower, entry, v + 1,
            IF ~ContainsPhrase(goal_lower, entry.variants[v])
               /\ new_query \notin Range(queries)
            THEN Append(queries, new_query) ELSE queries)

\* the outer loop over keyword_map
RECURSIVE AddKeywords(_, _, _)
AddKeywords(goal_lower, k, queries) ==
  IF k > Len(KeywordMap) THEN queries
  ELSE AddKeywords(goal_lower, k + 1,
         IF ContainsPhrase(goal_lower, << KeywordMap[k].key >>)
         THEN AddVariants(goal_lower, KeywordMap[k], 1, queries)
         ELSE queries)

generate_expansion_queries(goal) ==
  LET expansion_queries == AddKeywords(LowerText(goal), 1, <<>>)
  IN Take(IF expansion_queries = <<>> THEN GenericExpansionQueries
          ELSE expansion_queries, EXPANSION_QUERY_CAP)

\* ---------------------------------------------------------------- planner
\* the words goals are made of, with len(word)
WordLen ==
  [ find |-> 4, on |-> 2, ai |-> 2, deep |-> 4, graph |-> 5, routing |-> 7,
    consensus |-> 9, survey |-> 6, learning |-> 8 ]

Vocabulary == { "find", "on", "ai", "deep", "graph", "routing", "consensus" }

\* for each word, the terms among ml_indicators, "routing" and "protocol"
\* that occur in it as a substring
TermsIn ==
  [ find |-> {}, on |-> {}, ai |-> { "ai" }, deep |-> { "deep" }, graph |-> {},
    routing |-> { "routing" }, consensus |-> {}, survey |-> {},
    learning |-> { "learning" } ]

noise_words ==
  { "find", "analyze", "papers", "on", "about", "what", "is", "the",
    "for", "and", "or", "a", "an", "this", "that", "would", "like",
    "to", "know", "of", "previous", "i", "you", "we", "they", "it",
    "get", "set", "see", "make", "do", "have", "be", "help", "give",
    "research", "study", "review", "explore", "investigate", "examine" }

ml_indicators == { "learning", "neural", "deep", "model", "network", "ai", "llm", "agent" }

\* len(" ".join(text))
RECURSIVE CharLen(_)
CharLen(text) ==
  IF text = <<>> THEN 0
  ELSE WordLen[Head(text)] + (IF Len(text) > 1 THEN 1 ELSE 0) + CharLen(Tail(text))

\* "term in combined", combined being the words joined by blanks
Mentions(text, terms) == \E k \in DOMAIN text : TermsIn[text[k]] \cap terms # {}

\* max(terms, key=len): the first of the longest
LongestOf(terms) ==
  LET k == CHOOSE a \in DOMAIN terms :
             /\ \A b \in DOMAIN terms : WordLen[terms[b]] <= WordLen[terms[a]]
             /\ \A b \in 1 .. (a - 1) : WordLen[terms[b]] < WordLen[terms[a]]
  IN terms[k]

\* sorted(terms, key=len, reverse=True): stable, so a term goes behind the
\* terms before it that are at least as long
RECURSIVE SortedByLenDesc(_)
SortedByLenDesc(terms) ==
  IF terms = <<>> THEN <<>>
  ELSE LET w == terms[Len(terms)]
           before == SortedByLenDesc(SubSeq(terms, 1, Len(terms) - 1))
           n == Cardinality({ k \in DOMAIN before : WordLen[before[k]] >= WordLen[w] })
       IN SubSeq(before, 1, n) \o << w >> \o SubSeq(before, n + 1, Len(before))

\* the loop that removes duplicates and queries made of noise only
RECURSIVE UniqueQueries_KeepAll(_, _)
UniqueQueries_KeepAll(queries, unique) ==
  IF queries = <<>> THEN unique
  ELSE UniqueQueries_KeepAll(Tail(queries), Append(unique, Head(queries)))

RECURSIVE UniqueQueries(_, _)
UniqueQueries(queries, unique) ==
  IF queries = <<>> THEN unique
  ELSE LET q == Head(queries)
       IN UniqueQueries(Tail(queries),
            IF /\ q \notin Range(unique)
               /\ CharLen(q) > 2
               /\ ~(Range(LowerText(q)) \subseteq noise_words)
            THEN Append(unique, q) ELSE unique)

\* Planner._decompose_goal_heuristic
decompose_goal_heuristic(goal) ==
  LET words == LowerText(goal)
      specific == SelectSeq(words, LAMBDA w : w \notin noise_words /\ WordLen[w] > 2)
      longer == SelectSeq(words, LAMBDA w : WordLen[w] > 2)
      key_terms == IF specific # <<>> THEN specific
                   ELSE IF longer # <<>> THEN longer
                   ELSE words
      q1 == IF key_terms # <<>> THEN << Take(key_terms, 6) >> ELSE <<>>
      q2 == IF key_terms # <<>> THEN << Take(key_terms, 4) \o << "survey" >> >> ELSE <<>>
      q3 == IF key_terms = <<>> THEN <<>>
            ELSE IF /\ ~Mentions(key_terms, ml_indicators)
                    /\ ~Mentions(key_terms, { "routing" })
                    /\ ~Mentions(key_terms, { "protocol" })
            THEN << key_terms \o << "learning" >> >>
            ELSE IF Len(key_terms) > 1 THEN << Take(key_terms, 3) >>
            ELSE <<>>
      q4 == IF Len(key_terms) > 1 THEN << << LongestOf(Take(key_terms, 3)) >> >> ELSE <<>>
      q5 == IF Len(key_terms) >= 2 THEN << Take(SortedByLenDesc(key_terms), 3) >> ELSE <<>>
  IN Take(UniqueQueries(q1 \o q2 \o q3 \o q4 \o q5, <<>>), 5)

\* what LLMClient.generate_json can answer to the planning prompt: it raises
\* (request failed, no JSON in the answer), or returns a list, or a dict
\* whose "queries" entry (or [] without one) is taken.  "" is written <<>>.
LlmQueries == << << "graph", "survey", "learning" >>, << "consensus", "routing", "survey" >> >>

GenerateJsonOutcomes ==
  { [kind |-> "raise", queries |-> <<>>],
    [kind |-> "list", queries |-> <<>>],
    [kind |-> "list", queries |-> << <<>> >>],
    [kind |-> "list", queries |-> LlmQueries],
    [kind |-> "dict", queries |-> <<>>] }

\* the search_queries of the plan Planner.decompose_goal returns
PlannerQueries(goal, r) ==
  LET answered == IF r.kind = "raise" THEN <<>>
                  ELSE SelectSeq(r.queries, LAMBDA q : CharLen(q) > 5)
  IN Take(IF answered = <<>> THEN decompose_goal_heuristic(goal) ELSE answered, 5)

\* AdaptivePlanner._generate_fallback_queries
generate_fallback_queries(goal) ==
  << goal \o << "academic", "research" >>,
     << "recent", "advances", "in" >> \o goal,
     goal \o << "methodology" >> >>

\* the search_queries of the plan AdaptivePlanner.decompose_goal returns,
\* learned being what get_effective_search_patterns returned
AdaptiveQueries(goal, r, learned) ==
  Take(IF r.kind # "raise" THEN r.queries
       ELSE IF learned # <<>>
       THEN [k \in 1 .. Min(3, Len(learned)) |-> learned[k].query]
       ELSE generate_fallback_queries(goal), 5)

\* AgentMemory.get_effective_search_patterns without vector memory: the
\* stored patterns with success_rate above 0.7, sorted by success_rate
\* (quality_score is the same for all), the first n of them.  The sort is
\* stable on the order of KEYS, which Redis leaves open, so patterns with
\* equal rates come in any order.
RECURSIVE EffectivePatterns(_, _)
EffectivePatterns(patterns, n) ==
  LET effective == { q \in patterns : q.success_rate > 70 }
      best == { q \in effective : \A o \in effective : o.success_rate <= q.success_rate }
  IN IF n = 0 \/ effective = {} THEN { <<>> }
     ELSE UNION { { << q >> \o rest : rest \in EffectivePatterns(patterns \ { q }, n - 1) }
                  : q \in best }

\* the adaptive threshold of score_papers, from the highest score of the
\* batch, in hundredths
ChooseThreshold(max_score) ==
  IF max_score < 45 THEN 20
  ELSE IF max_score < 60 THEN 25
  ELSE 35

\* max(scores) of a non-empty batch
MaxScore(seq) ==
  CHOOSE m \in { Paper[seq[k]].score : k \in DOMAIN seq } :
    \A k \in DOMAIN seq : Paper[seq[k]].score <= m

\* the candidates of a batch score_papers passes
PassAdaptive(seq) ==
  { c \in Range(seq) : Paper[c].score >= ChooseThreshold(MaxScore(seq)) }

\* ---------------------------------------------------------------- state
VARIABLES
  research_goal,     \* the goal the job was submitted with
  pc,                \* position of the job in execute_research_goal / execute_loop
  abortCause,        \* the exception that left the job, "" while none has
  plan,              \* the execution plan: number of queries, max_sources
  i,                 \* index of the running loop
  all_sources,       \* execute_loop local
  new_queries,       \* number of refinement queries obtained
  relevant_sources,  \* execute_loop local
  validated_sources, \* execute_loop local
  extractions,       \* execute_loop local
  scorer_bound,      \* whether the locals scorer and logger have been assigned
  store,             \* the Redis keys of the job
  failsLeft,         \* store write failures that may still happen
  storeWriteFailed,  \* history: some store write of the job has failed
  calls,             \* history: the tool calls issued, with their outcomes
  memory,            \* planning: the learned-pattern keys all jobs share
  jobs,              \* planning: the jobs whose planning is followed
  params,            \* a function on its own: the arguments it is applied to
  returned,          \* a function on its own: what it returned or raised
  clock              \* a function on its own: what datetime.now() gives

vars ==
  << research_goal, memory, jobs, pc, abortCause, plan, i, all_sources, new_queries, relevant_sources,
     validated_sources, extractions, scorer_bound, store, failsLeft,
     storeWriteFailed, calls, params, returned, clock >>

\* what the planning actions work on
planning == << memory, jobs >>

\* what the actions that apply one function on its own work on
unit == << params, returned, clock >>

NoUnit ==
  /\ params = <<>>
  /\ returned = <<>>
  /\ clock = 0

locals ==
  << plan, i, all_sources, new_queries, relevant_sources, validated_sources,
     extractions, scorer_bound >>

Init ==
  /\ research_goal \in Goals
  /\ memory = {}
  /\ jobs = <<>>
  /\ NoUnit
  /\ pc = "start"
  /\ abortCause = ""
  /\ plan = [nq |-> 0, max_sources |-> 0]
  /\ i = 0
  /\ all_sources = <<>>
  /\ new_queries = 0
  /\ relevant_sources = <<>>
  /\ validated_sources = <<>>
  /\ extractions = <<>>
  /\ scorer_bound = FALSE
  /\ store = EmptyStore
  /\ failsLeft = MaxStoreFailures
  /\ storeWriteFailed = FALSE
  /\ calls = <<>>

\* ---------------------------------------------------------------- store writes of a step
\* A step issues the writes ws in order.  f = 0: all succeed; f > 0: the
\* f-th write raises (RedisStorage._ensure_connected) after the first f - 1
\* have taken effect.
FailPoints(ws) == IF failsLeft > 0 THEN 0 .. Len(ws) ELSE {0}

StoreAfter(ws, f) == ApplyWrites(store, ws, IF f = 0 THEN Len(ws) ELSE f - 1)

Budget(f) ==
  /\ failsLeft' = IF f = 0 THEN failsLeft ELSE failsLeft - 1
  /\ storeWriteFailed' = (storeWriteFailed \/ f # 0)

Abort(cause) ==
  /\ pc' = "aborted"
  /\ abortCause' = cause

Goto(label) ==
  /\ pc' = label
  /\ abortCause' = abortCause

Call(tool, phase, n, outcome) ==
  [ tool |-> tool, phase |-> phase, n |-> n, outcome |-> outcome ]

\* an except-handler that itself writes to the audit trail: the write
\* succeeds and the job goes on at label, or it raises and the job is left
Handler(st, budget, failed, w, label) ==
  \/ /\ store' = ApplyWrite(st, w)
     /\ failsLeft' = budget
     /\ storeWriteFailed' = failed
     /\ Goto(label)
  \/ /\ budget > 0
     /\ store' = st
     /\ failsLeft' = budget - 1
     /\ storeWriteFailed' = TRUE
     /\ Abort("StorageError")


\* ---------------------------------------------------------------- execute_research_goal, first part
\* create_job, the PLANNING checkpoint and the initialization audit entry
CreateJob ==
  /\ pc = "start"
  /\ LET ws == << WJob,
                  WState([NewAgentState EXCEPT !.status = "PLANNING"]),
                  WAudit("INITIALIZING", "Goal received and job created", 0) >>
     IN \E f \in FailPoints(ws) :
          /\ store' = StoreAfter(ws, f)
          /\ Budget(f)
          /\ IF f = 0 THEN Goto("plan") ELSE Abort("StorageError")
  /\ UNCHANGED << research_goal, planning, unit, locals, calls >>

\* decompose_goal, the SEARCHING checkpoint and the planning audit entry.  The
\* plan is kept as the number of its search queries, which is all that
\* execute_loop depends on; AdaptivePlanner.decompose_goal returns no query
\* when the text generation answers with an empty list (DecomposeGoal below).
PlanGoal ==
  /\ pc = "plan"
  /\ \E nq \in 0 .. MaxQueries, ms \in PlanMaxSources :
       /\ plan' = [nq |-> nq, max_sources |-> ms]
       /\ LET ws == << WState([NewAgentState EXCEPT !.status = "SEARCHING"]),
                       WAudit("PLANNING", "Execution plan created", 0) >>
          IN \E f \in FailPoints(ws) :
               /\ store' = StoreAfter(ws, f)
               /\ Budget(f)
               /\ IF f # 0 THEN Abort("StorageError")
                  ELSE IF nq = 0 THEN Goto("refine_check")
                  ELSE Goto("search")
  /\ i' = 1
  /\ UNCHANGED << research_goal, planning, unit, all_sources, new_queries, relevant_sources, validated_sources,
                  extractions, scorer_bound, calls >>

\* ---------------------------------------------------------------- execute_loop, phase 1
\* the state execute_loop checkpoints after a successful planned query
SearchCheckpointState(st, found) ==
  [st EXCEPT !.sources_found = found, !.current_phase = "SEARCHING"]

\* the store writes that follow a successful planned query
PlannedSearchWrites(st, found, results) ==
  SourceWrites(results) \o << WState(SearchCheckpointState(st, found)) >>

\* one iteration of the loop over plan["search_queries"]
PlannedSearch ==
  /\ pc = "search"
  /\ i <= plan.nq
  /\ \E o \in SearchOutcomes :
       LET found == all_sources \o o.results
           ws == << WAudit("SEARCHING", "Executing search", i) >>
                   \o (IF o.kind = "ok"
                       THEN PlannedSearchWrites(store.state, found, o.results)
                       ELSE <<>>)
       IN \E f \in FailPoints(ws) :
            /\ store' = StoreAfter(ws, f)
            /\ Budget(f)
            /\ calls' = IF f = 1 THEN calls
                        ELSE Append(calls, Call("search_papers", "planned", i, o.kind))
            /\ all_sources' = IF o.kind = "ok" /\ (f = 0 \/ f = Len(ws)) THEN found
                              ELSE all_sources
            /\ IF f # 0 THEN Abort("StorageError") /\ i' = i
               ELSE IF o.kind = "raise" THEN Abort("ToolExecutionError") /\ i' = i
               ELSE /\ i' = i + 1
                    /\ Goto(IF i + 1 > plan.nq THEN "refine_check" ELSE "search")
  /\ UNCHANGED << research_goal, planning, unit, plan, new_queries, relevant_sources, validated_sources,
                  extractions, scorer_bound >>

\* the adaptive-refinement test: len(all_sources) < target_sources // 2
NeedsRefinement(found, target_sources) == found < target_sources \div 2

\* the adaptive-refinement test and the request for refined queries
AdaptiveRefinement ==
  /\ pc = "refine_check"
  /\ IF NeedsRefinement(Len(all_sources), plan.max_sources)
     THEN \E r \in RefinementOutcomes :
            LET ws == << WAudit("ADAPTIVE_REFINEMENT", "Insufficient sources", 0) >>
                        \o (IF r = -1
                            THEN << WAudit("ADAPTIVE_REFINEMENT", "Refinement skipped", 0) >>
                            ELSE <<>>)
            IN \E f \in FailPoints(ws) :
                 /\ store' = StoreAfter(ws, f)
                 /\ Budget(f)
                 /\ new_queries' = IF r = -1 \/ f # 0 THEN 0 ELSE r
                 /\ IF f # 0 THEN Abort("StorageError")
                    ELSE Goto(IF r <= 0 THEN "validate" ELSE "refine")
     ELSE /\ Goto("validate")
          /\ UNCHANGED << store, failsLeft, storeWriteFailed, new_queries >>
  /\ i' = 1
  /\ UNCHANGED << research_goal, planning, unit, plan, all_sources, relevant_sources, validated_sources,
                  extractions, scorer_bound, calls >>

\* the store writes one refined query makes inside the try block
RefinedSearchWrites(n, o) ==
  << WAudit("SEARCHING", "Refined search", n) >>
    \o (IF o.kind = "ok" THEN SourceWrites(o.results) ELSE <<>>)

RefinementSkipped == WAudit("ADAPTIVE_REFINEMENT", "Refinement skipped", 0)

\* one iteration of the loop over new_queries, with the handler of the
\* enclosing try
RefinedSearch ==
  /\ pc = "refine"
  /\ i <= new_queries
  /\ \E o \in SearchOutcomes :
       LET ws == RefinedSearchWrites(i, o)
       IN \E f \in FailPoints(ws) :
            /\ calls' = IF f = 1 THEN calls
                        ELSE Append(calls, Call("search_papers", "refined", i, o.kind))
            /\ IF f = 0 /\ o.kind # "raise"
               THEN /\ store' = StoreAfter(ws, 0)
                    /\ Budget(0)
                    /\ all_sources' = all_sources \o o.results
                    /\ i' = i + 1
                    /\ Goto(IF i + 1 > new_queries THEN "validate" ELSE "refine")
               ELSE /\ Handler(StoreAfter(ws, f),
                               IF f = 0 THEN failsLeft ELSE failsLeft - 1,
                               storeWriteFailed \/ f # 0,
                               RefinementSkipped, "validate")
                    /\ UNCHANGED << all_sources, i >>
  /\ UNCHANGED << research_goal, planning, unit, plan, new_queries, relevant_sources, validated_sources,
                  extractions, scorer_bound >>


\* ---------------------------------------------------------------- execute_loop, phase 2
BatchScoringFailed == WAudit("RELEVANCE_FILTER", "Batch scoring failed, keeping all sources", 0)

\* governance validation and relevance scoring of all_sources
ScoreSources ==
  /\ pc = "validate"
  /\ LET sources_to_score == validate_all_sources(all_sources)
         ws == ScoringAudit(sources_to_score)
     IN IF sources_to_score = <<>>
        THEN /\ relevant_sources' = <<>>
             /\ scorer_bound' = FALSE
             /\ Goto("expansion_check")
             /\ UNCHANGED << store, failsLeft, storeWriteFailed >>
        ELSE /\ scorer_bound' = TRUE
             /\ \E f \in FailPoints(ws) :
                  IF f = 0
                  THEN /\ store' = StoreAfter(ws, 0)
                       /\ Budget(0)
                       /\ relevant_sources' =
                            Filter(sources_to_score, { c \in Candidates : IsRelevant(c) })
                       /\ Goto("expansion_check")
                  ELSE /\ relevant_sources' = sources_to_score
                       /\ Handler(StoreAfter(ws, f), failsLeft - 1, TRUE,
                                  BatchScoringFailed, "expansion_check")
  /\ UNCHANGED << research_goal, planning, unit, plan, i, all_sources, new_queries, validated_sources,
                  extractions, calls >>

\* the test that opens the search-expansion loop
ExpansionDecision ==
  /\ pc = "expansion_check"
  /\ IF Len(relevant_sources) < MIN_TARGET_SOURCES
     THEN LET ws == << WAudit("SEARCH_EXPANSION", "Too few sources passed relevance filter", 0) >>
          IN \E f \in FailPoints(ws) :
               /\ store' = StoreAfter(ws, f)
               /\ Budget(f)
               /\ IF f = 0 THEN Goto("expand") ELSE Abort("StorageError")
     ELSE /\ Goto("save_validated")
          /\ UNCHANGED << store, failsLeft, storeWriteFailed >>
  /\ i' = 1
  /\ UNCHANGED << research_goal, planning, unit, plan, all_sources, new_queries, relevant_sources,
                  validated_sources, extractions, scorer_bound, calls >>

\* the outcomes of the expansion search after which the loop body uses the
\* locals scorer or logger: scorer.batch_score when the result is a success,
\* logger.warning in the except clause when the tool raised
UsesScorerOrLogger_Always(kind) == TRUE

UsesScorerOrLogger(kind) == kind # "fail"

\* where the expansion loop goes after query n: it breaks once the accepted
\* list has min_target_sources entries (tested only after a merge), and ends
\* with the last of the queries tried
AfterExpansionQuery_NoBreak(accepted, n, last, merged) ==
  IF n + 1 > last THEN "save_validated" ELSE "expand"

AfterExpansionQuery(accepted, n, last, merged) ==
  IF merged /\ Len(accepted) >= MIN_TARGET_SOURCES THEN "save_validated"
  ELSE IF n + 1 > last THEN "save_validated"
  ELSE "expand"

\* expansion_queries[:2]
ExpansionQueries(goal) == Take(generate_expansion_queries(goal), EXPANSION_LIMIT)

\* one iteration of the loop over expansion_queries[:2].  The locals scorer
\* and logger are assigned only inside "if sources_to_score:", so using
\* either while unassigned raises UnboundLocalError; raised by
\* logger.warning inside the except clause it leaves execute_loop.
ExpansionSearch ==
  /\ pc = "expand"
  /\ i <= Len(ExpansionQueries(research_goal))
  /\ \E o \in SearchOutcomes :
       LET merged == MergeExpansion(relevant_sources, o.results)
           last == Len(ExpansionQueries(research_goal))
       IN /\ calls' = Append(calls, Call("search_papers", "expansion", i, o.kind))
          /\ IF UsesScorerOrLogger(o.kind) /\ ~scorer_bound
             THEN /\ Abort("UnboundLocalError")
                  /\ UNCHANGED << i, relevant_sources >>
             ELSE IF o.kind = "ok"
             THEN /\ relevant_sources' = merged
                  /\ i' = i + 1
                  /\ Goto(AfterExpansionQuery(merged, i, last, TRUE))
             ELSE /\ i' = i + 1
                  /\ Goto(AfterExpansionQuery(relevant_sources, i, last, FALSE))
                  /\ UNCHANGED relevant_sources
  /\ UNCHANGED << research_goal, planning, unit, plan, all_sources, new_queries, validated_sources, extractions,
                  scorer_bound, store, failsLeft, storeWriteFailed >>

\* the state checkpointed with the validated sources
ValidatedCheckpointState(st, validated) ==
  [st EXCEPT !.sources_validated = validated,
             !.status = "VALIDATING", !.current_phase = "VALIDATING"]

\* validated_sources = relevant_sources[:plan["max_sources"]]
CapToMaxSources_None(accepted, max_sources) == accepted

CapToMaxSources(accepted, max_sources) == Take(accepted, max_sources)

\* truncation to max_sources, save_sources and the VALIDATING checkpoint
SaveValidated ==
  /\ pc = "save_validated"
  /\ LET validated == CapToMaxSources(relevant_sources, plan.max_sources)
         ws == << WAudit("RELEVANCE_FILTER", "Relevance filtering complete", 0),
                  WSources(validated),
                  WState(ValidatedCheckpointState(store.state, validated)) >>
     IN /\ validated_sources' = validated
        /\ \E f \in FailPoints(ws) :
             /\ store' = StoreAfter(ws, f)
             /\ Budget(f)
             /\ IF f = 0 THEN Goto("begin_extract") ELSE Abort("StorageError")
  /\ UNCHANGED << research_goal, planning, unit, plan, i, all_sources, new_queries, relevant_sources,
                  extractions, scorer_bound, calls >>

\* ---------------------------------------------------------------- execute_loop, phase 3
\* the validation audit entry and the EXTRACTING checkpoint
BeginExtraction ==
  /\ pc = "begin_extract"
  /\ LET ws == << WAudit("VALIDATING", "Validated sources", 0),
                  WState([store.state EXCEPT !.status = "EXTRACTING",
                                             !.current_phase = "EXTRACTING"]) >>
     IN \E f \in FailPoints(ws) :
          /\ store' = StoreAfter(ws, f)
          /\ Budget(f)
          /\ extractions' = IF f = 1 THEN extractions ELSE <<>>
          /\ IF f # 0 THEN Abort("StorageError")
             ELSE Goto(IF validated_sources = <<>> THEN "finish_loop" ELSE "extract")
  /\ i' = 1
  /\ UNCHANGED << research_goal, planning, unit, plan, all_sources, new_queries, relevant_sources,
                  validated_sources, scorer_bound, calls >>

\* the data of a successful extraction of source c
Extraction(c) == Paper[c].url

\* variant: the checkpoint reuses the state object read for the VALIDATING
\* checkpoint instead of the state read back from the store
ExtractionCheckpointState_Stale(st, done) ==
  [st EXCEPT !.extractions_complete = done, !.status = "VALIDATING"]

\* variant: the loop's list is added to the stored list instead of replacing it
ExtractionCheckpointState_Accumulate(st, done) ==
  [st EXCEPT !.extractions_complete = @ \o done]

\* the state checkpointed after a successful extraction
ExtractionCheckpointState(st, done) ==
  [st EXCEPT !.extractions_complete = done]

\* variant: the extraction is appended to the store's list but the state is
\* not checkpointed inside the loop
ExtractionWrites_NoCheckpoint(st, done, c, n, outcome) ==
  IF outcome = "ok"
  THEN << WExtraction(Paper[c].url) >>
  ELSE IF outcome = "fail"
  THEN << WAudit("EXTRACTING", "Extraction failed", n) >>
  ELSE <<>>

\* the store writes that follow the extraction call, by its outcome
ExtractionWrites(st, done, c, n, outcome) ==
  IF outcome = "ok"
  THEN << WExtraction(Extraction(c)),
          WState(ExtractionCheckpointState(st, Append(done, Extraction(c)))) >>
  ELSE IF outcome = "fail"
  THEN << WAudit("EXTRACTING", "Extraction failed", n) >>
  ELSE <<>>

\* one iteration of the loop over validated_sources
ExtractSource ==
  /\ pc = "extract"
  /\ i <= Len(validated_sources)
  /\ \E o \in ExtractOutcomes :
       LET c == validated_sources[i]
           ws == << WAudit("EXTRACTING", "Extracting from source", i) >>
                   \o ExtractionWrites(store.state, extractions, c, i, o)
       IN \E f \in FailPoints(ws) :
            /\ store' = StoreAfter(ws, f)
            /\ Budget(f)
            /\ calls' = IF f = 1 THEN calls
                        ELSE Append(calls, Call("extract_paper", "extract", i, o))
            /\ extractions' = IF o = "ok" /\ f # 1
                              THEN Append(extractions, Extraction(c))
                              ELSE extractions
            /\ IF f # 0 THEN Abort("StorageError") /\ i' = i
               ELSE IF o = "raise" THEN Abort("ToolExecutionError") /\ i' = i
               ELSE /\ i' = i + 1
                    /\ Goto(IF i + 1 > Len(validated_sources) THEN "finish_loop" ELSE "extract")
  /\ UNCHANGED << research_goal, planning, unit, plan, all_sources, new_queries, relevant_sources,
                  validated_sources, scorer_bound >>

\* the final state update of execute_loop
FinishLoop ==
  /\ pc = "finish_loop"
  /\ LET ws == << WState([store.state EXCEPT !.status = "SYNTHESIZING",
                                             !.current_phase = "SYNTHESIZING"]) >>
     IN \E f \in FailPoints(ws) :
          /\ store' = StoreAfter(ws, f)
          /\ Budget(f)
          /\ IF f = 0 THEN Goto("synthesize") ELSE Abort("StorageError")
  /\ UNCHANGED << research_goal, planning, unit, locals, calls >>

\* ---------------------------------------------------------------- execute_research_goal, last part
\* synthesis and the COMPLETED checkpoint
Complete ==
  /\ pc = "synthesize"
  /\ LET ws == << WState([store.state EXCEPT !.status = "COMPLETED"]) >>
     IN \E f \in FailPoints(ws) :
          /\ store' = StoreAfter(ws, f)
          /\ Budget(f)
          /\ IF f = 0 THEN Goto("save_results") ELSE Abort("StorageError")
  /\ UNCHANGED << research_goal, planning, unit, locals, calls >>

\* save_results and the completion audit entry
SaveResults ==
  /\ pc = "save_results"
  /\ LET ws == << WResults, WAudit("COMPLETION", "Synthesis complete", 0) >>
     IN \E f \in FailPoints(ws) :
          /\ store' = StoreAfter(ws, f)
          /\ Budget(f)
          /\ IF f = 0 THEN Goto("done") ELSE Abort("StorageError")
  /\ UNCHANGED << research_goal, planning, unit, locals, calls >>

\* ---------------------------------------------------------------- specification
Next ==
  \/ CreateJob
  \/ PlanGoal
  \/ PlannedSearch
  \/ AdaptiveRefinement
  \/ RefinedSearch
  \/ ScoreSources
  \/ ExpansionDecision
  \/ ExpansionSearch
  \/ SaveValidated
  \/ BeginExtraction
  \/ ExtractSource
  \/ FinishLoop
  \/ Complete
  \/ SaveResults

Spec == Init /\ [][Next]_vars

\* ---------------------------------------------------------------- adaptive refinement on its own
\* The refinement phase of execute_loop entered with the targets of the
\* planner's depth map and with every number of sources the planned queries
\* can leave behind, up to MaxFound.
RefinementTargets == { 10, 15 }

\* the candidates the planned query found, n of them
FoundByPlannedQuery(n) == [k \in 1 .. n |-> << "G1", "G2", "G3" >>[((k - 1) % 3) + 1]]

\* the job as the planned loop of a one-query plan leaves it
InitRefinement ==
  /\ research_goal \in Goals
  /\ memory = {}
  /\ jobs = <<>>
  /\ NoUnit
  /\ pc = "refine_check"
  /\ abortCause = ""
  /\ \E ms \in RefinementTargets : plan = [nq |-> 1, max_sources |-> ms]
  /\ i = 2
  /\ \E n \in 0 .. MaxFound : all_sources = FoundByPlannedQuery(n)
  /\ new_queries = 0
  /\ relevant_sources = <<>>
  /\ validated_sources = <<>>
  /\ extractions = <<>>
  /\ scorer_bound = FALSE
  /\ LET searching == [NewAgentState EXCEPT !.status = "SEARCHING"]
         ws == << WJob, WState([NewAgentState EXCEPT !.status = "PLANNING"]),
                  WAudit("INITIALIZING", "Goal received and job created", 0),
                  WState(searching),
                  WAudit("PLANNING", "Execution plan created", 0),
                  WAudit("SEARCHING", "Executing search", 1) >>
                \o (IF all_sources = <<>> THEN <<>>
                    ELSE PlannedSearchWrites(searching, all_sources, all_sources))
     IN store = ApplyWrites(EmptyStore, ws, Len(ws))
  /\ failsLeft = MaxStoreFailures
  /\ storeWriteFailed = FALSE
  /\ calls = << Call("search_papers", "planned", 1,
                     IF all_sources = <<>> THEN "fail" ELSE "ok") >>

NextRefinement ==
  \/ AdaptiveRefinement
  \/ RefinedSearch

SpecRefinement == InitRefinement /\ [][NextRefinement]_vars

\* ---------------------------------------------------------------- planning of several jobs
\* The jobs the service runs as background tasks, followed through the parts
\* of execute_research_goal that use the planner and the agent memory; what
\* lies between planning and the end of the job is one step.  One service
\* process runs a job to its end before it starts the next (the coroutine
\* never awaits); processes that share the store interleave at its calls.
\* Both orders of two whole jobs are among the interleavings below.
Jobs == { "j1", "j2" }

PlanningGoals == { << "graph", "consensus" >>, << "deep", "routing" >> }

\* goals of up to MaxGoalWords words
HeuristicGoals == UNION { [1 .. n -> Vocabulary] : n \in 0 .. MaxGoalWords }

\* validation_rate of a finished job, in hundredths
ValidationRates == { 50, 80 }

\* the keys of the store that carry the job id
JobKeys(j) ==
  { [ns |-> n, id |-> j] :
      n \in { "job", "agent_state", "sources", "extractions", "audit_log",
              "results", "memory:performance" } }

\* memory:search_pattern:{query[:50]}; the queries here are shorter than 50
PatternKey(q) == [ns |-> "memory:search_pattern", id |-> q]

\* AdaptivePlanner._extract_domain_keywords, and the key get_domain_knowledge
\* reads for the first keyword
DomainKeys(goal) ==
  IF ContainsPhrase(LowerText(goal), << "consensus" >>)
  THEN { [ns |-> "memory:domain", id |-> "consensus"] } ELSE {}

NewJob(goal) ==
  [ pc |-> "submitted", goal |-> goal, llm |-> [kind |-> "none", queries |-> <<>>],
    queries |-> <<>>, rate |-> 0, k |-> 0,
    existing |-> [success_rate |-> 0, times_used |-> 0],
    reads |-> {}, writes |-> {} ]

\* the variables of the job followed in detail, idle while planning is followed
running ==
  << research_goal, pc, abortCause, locals, store, failsLeft, storeWriteFailed, calls >>

Idle ==
  /\ research_goal = <<>>
  /\ pc = "start"
  /\ abortCause = ""
  /\ plan = [nq |-> 0, max_sources |-> 0]
  /\ i = 0
  /\ all_sources = <<>>
  /\ new_queries = 0
  /\ relevant_sources = <<>>
  /\ validated_sources = <<>>
  /\ extractions = <<>>
  /\ scorer_bound = FALSE
  /\ store = EmptyStore
  /\ failsLeft = 0
  /\ storeWriteFailed = FALSE
  /\ calls = <<>>

\* create_job up to the SEARCHING checkpoint, with AdaptivePlanner.decompose_goal
DecomposeGoal(j) ==
  /\ jobs[j].pc = "submitted"
  /\ \E r \in GenerateJsonOutcomes, learned \in EffectivePatterns(memory, 3) :
       jobs' = [jobs EXCEPT ![j].pc = "planned",
                            ![j].llm = r,
                            ![j].queries = AdaptiveQueries(jobs[j].goal, r, learned),
                            ![j].reads = @ \cup { PatternKey(q.query) : q \in memory }
                                           \cup DomainKeys(jobs[j].goal),
                            ![j].writes = @ \cup JobKeys(j)]
  /\ UNCHANGED << memory, unit, running >>

\* execute_loop up to save_performance_metrics
ExecuteLoop(j) ==
  /\ jobs[j].pc = "planned"
  /\ \E rate \in ValidationRates :
       jobs' = [jobs EXCEPT ![j].pc = IF jobs[j].queries = <<>> THEN "done" ELSE "record_get",
                            ![j].rate = rate,
                            ![j].k = 1,
                            ![j].reads = @ \cup JobKeys(j),
                            ![j].writes = @ \cup JobKeys(j)]
  /\ UNCHANGED << memory, unit, running >>

\* save_search_pattern of record_success, first half: client.get(key)
RecordGet(j) ==
  /\ jobs[j].pc = "record_get"
  /\ LET q == jobs[j].queries[jobs[j].k]
         stored == { e \in memory : e.query = q }
     IN jobs' = [jobs EXCEPT ![j].pc = "record_set",
                             ![j].existing =
                                IF stored = {} THEN [success_rate |-> 0, times_used |-> 0]
                                ELSE LET e == CHOOSE e \in stored : TRUE
                                     IN [success_rate |-> e.success_rate,
                                         times_used |-> e.times_used],
                             ![j].reads = @ \cup { PatternKey(q) }]
  /\ UNCHANGED << memory, unit, running >>

\* save_search_pattern, second half: client.set(key, pattern)
RecordSet(j) ==
  /\ jobs[j].pc = "record_set"
  /\ LET q == jobs[j].queries[jobs[j].k]
         pattern == [ query |-> q,
                      success_rate |-> IF jobs[j].rate > jobs[j].existing.success_rate
                                       THEN jobs[j].rate ELSE jobs[j].existing.success_rate,
                      times_used |-> jobs[j].existing.times_used + 1 ]
     IN /\ memory' = { e \in memory : e.query # q } \cup { pattern }
        /\ jobs' = [jobs EXCEPT ![j].pc = IF jobs[j].k < Len(jobs[j].queries)
                                          THEN "record_get" ELSE "done",
                                ![j].k = @ + 1,
                                ![j].writes = @ \cup { PatternKey(q) }]
  /\ UNCHANGED << unit, running >>

InitPlanning ==
  /\ Idle
  /\ NoUnit
  /\ memory = {}
  /\ jobs \in [Jobs -> { NewJob(g) : g \in PlanningGoals }]

NextPlanning ==
  \E j \in Jobs :
     \/ DecomposeGoal(j)
     \/ ExecuteLoop(j)
     \/ RecordGet(j)
     \/ RecordSet(j)

SpecPlanning == InitPlanning /\ [][NextPlanning]_vars

\* ---------------------------------------------------------------- the heuristic planner on its own
\* Planner.decompose_goal, whose fallback is _decompose_goal_heuristic, run
\* by two jobs on the same goal
HeuristicDecompose(j) ==
  /\ jobs[j].pc = "submitted"
  /\ \E r \in GenerateJsonOutcomes :
       jobs' = [jobs EXCEPT ![j].pc = "planned",
                            ![j].llm = r,
                            ![j].queries = PlannerQueries(jobs[j].goal, r)]
  /\ UNCHANGED << memory, unit, running >>

InitHeuristic ==
  /\ Idle
  /\ NoUnit
  /\ memory = {}
  /\ \E g \in HeuristicGoals : jobs = [j \in Jobs |-> NewJob(g)]

NextHeuristic == \E j \in Jobs : HeuristicDecompose(j)

SpecHeuristic == InitHeuristic /\ [][NextHeuristic]_vars


\* ---------------------------------------------------------------- Python values
\* The values of a parsed JSON object.  A dict is a function on the keys it
\* has; a text is the sequence of its words.
None == [type |-> "NoneType"]

Num(n) == [type |-> "int", n |-> n]

Str(s) == [type |-> "str", s |-> s]

\* dict.get(key, default)
Get(d, key, default) == IF key \in DOMAIN d THEN d[key] ELSE default

\* bool(value)
Truthy_NotNone(v) == v.type # "NoneType"

Truthy(v) ==
  CASE v.type = "NoneType" -> FALSE
    [] v.type = "int" -> v.n # 0
    [] v.type = "str" -> v.s # <<>>

\* how a call ends
Raised(error) == [kind |-> "raise", error |-> error]

Returned(value) == [kind |-> "return", value |-> value]

Max(a, b) == IF a > b THEN a ELSE b

\* a key left out, or the key with one of the values
Field(key, values) == { <<>> } \cup { key :> v : v \in values }

\* ---------------------------------------------------------------- SourceValidator on its own
MaxSources == 2

\* Policies(): the defaults.  apply_user_constraints replaces them by the
\* window and the impact level of the request, here a window that starts
\* in 2021 and the level "established".
Policies == [min_year |-> MIN_YEAR, min_citations |-> MIN_CITATIONS]

PolicyChoices == { Policies, [min_year |-> 2021, min_citations |-> 10] }

\* source dicts as the search backend's JSON gives them: year and citations
\* each absent, null or a number
RawCandidates ==
  { [title |-> Str(<< "t" >>), url |-> Str(<< "u" >>)] @@ y @@ c :
      y \in Field("year", { None, Num(1985), Num(1990), Num(2021) }),
      c \in Field("citations", { None, Num(4), Num(5), Num(10) }) }
  \cup { [title |-> Str(<< "t" >>), url |-> None, year |-> Num(2021), citations |-> Num(10)] }

\* the two checks of validate_source
Violations_FirstOnly(policies, year, citations) ==
  IF year < policies.min_year THEN << "Publication too old" >>
  ELSE IF citations < policies.min_citations THEN << "Low citations" >>
  ELSE <<>>

Violations(policies, year, citations) ==
  (IF year < policies.min_year THEN << "Publication too old" >> ELSE <<>>)
    \o (IF citations < policies.min_citations THEN << "Low citations" >> ELSE <<>>)

\* SourceValidator.validate_source; confidence_score in hundredths.  The
\* slice of a url that is not a string, and "<" between a number and a
\* value that is not one, raise TypeError.
SourceValidator_validate_source(policies, candidate) ==
  LET url == Get(candidate, "url", Str(<<>>))
      year == Get(candidate, "year", Num(0))
      citations == Get(candidate, "citations", Num(0))
  IN IF url.type # "str" \/ year.type # "int" \/ citations.type # "int"
     THEN Raised("TypeError")
     ELSE LET violations == Violations(policies, year.n, citations.n)
              is_valid == Len(violations) = 0
          IN Returned([ is_valid |-> is_valid,
                        violations |-> violations,
                        confidence_score |->
                          IF is_valid THEN 100
                          ELSE Max(0, 100 - Len(violations) * 30) ])

\* the body of the loop of validate_all_sources
KeepValid_Prepend(validated, source, result) ==
  IF result.is_valid THEN << source >> \o validated ELSE validated

KeepValid(validated, source, result) ==
  IF result.is_valid THEN Append(validated, source) ELSE validated

RECURSIVE ValidateFrom(_, _, _)
ValidateFrom(policies, sources, validated) ==
  IF sources = <<>> THEN Returned(validated)
  ELSE LET result == SourceValidator_validate_source(policies, Head(sources))
       IN IF result.kind = "raise" THEN result
          ELSE ValidateFrom(policies, Tail(sources),
                            KeepValid(validated, Head(sources), result.value))

\* SourceValidator.validate_all_sources
SourceValidator_validate_all_sources(policies, sources) ==
  ValidateFrom(policies, sources, <<>>)

\* what the single job and the planning are while one function is applied
NoJob ==
  /\ Idle
  /\ memory = {}
  /\ jobs = <<>>

InitGovernance ==
  /\ NoJob
  /\ clock = 0
  /\ returned = <<>>
  /\ \E policies \in PolicyChoices, n \in 0 .. MaxSources :
       \E sources \in [1 .. n -> RawCandidates] :
          params = [policies |-> policies, sources |-> sources]

ValidateSource ==
  /\ returned = <<>>
  /\ \E k \in DOMAIN params.sources :
       returned' = [ fn |-> "validate_source", k |-> k,
                     result |-> SourceValidator_validate_source(params.policies,
                                                                params.sources[k]) ]
  /\ UNCHANGED << params, clock, planning, running >>

ValidateAllSources ==
  /\ returned = <<>>
  /\ returned' = [ fn |-> "validate_all_sources", k |-> 0,
                   result |-> SourceValidator_validate_all_sources(params.policies,
                                                                   params.sources) ]
  /\ UNCHANGED << params, clock, planning, running >>

NextGovernance ==
  \/ ValidateSource
  \/ ValidateAllSources

SpecGovernance == InitGovernance /\ [][NextGovernance]_vars

\* ---------------------------------------------------------------- RelevanceScorer on its own
\* The words of the titles, snippets and goals scored here, in lower case:
\* the number of characters, whether all of them are letters a-z, and the
\* words of the table the word starts with.
ScorerLexicon ==
  [ transformer  |-> [len |-> 11, letters |-> TRUE,  starts |-> { "transformer" }],
    transformers |-> [len |-> 12, letters |-> TRUE,  starts |-> { "transformer", "transformers" }],
    model        |-> [len |-> 5,  letters |-> TRUE,  starts |-> { "model" }],
    models       |-> [len |-> 6,  letters |-> TRUE,  starts |-> { "model", "models" }],
    modelling    |-> [len |-> 9,  letters |-> TRUE,  starts |-> { "model", "modelling" }],
    the          |-> [len |-> 3,  letters |-> TRUE,  starts |-> { "the" }],
    survey       |-> [len |-> 6,  letters |-> TRUE,  starts |-> { "survey" }],
    bert         |-> [len |-> 4,  letters |-> TRUE,  starts |-> { "bert" }],
    t5           |-> [len |-> 2,  letters |-> FALSE, starts |-> { "t5" }] ]

stopwords ==
  { "the", "a", "an", "and", "or", "but", "in", "on", "at", "to", "for",
    "of", "with", "by", "from", "is", "are", "was", "were", "be", "been",
    "have", "has", "do", "does", "did", "will", "would", "could", "should",
    "that", "this", "these", "those", "as", "which", "who", "what", "where",
    "why", "how", "all", "each", "every", "both", "few", "more", "most",
    "some", "any", "it", "its", "our", "your", "their", "can", "may",
    "must", "shall", "review", "analysis", "study", "research", "paper",
    "et", "al", "survey", "literature", "b", "c" }

\* RelevanceScorer._extract_keywords of a text
extract_keywords(text) ==
  { w \in Range(LowerText(text)) :
      /\ ScorerLexicon[w].letters
      /\ ScorerLexicon[w].len >= 3
      /\ w \notin stopwords }

\* str.startswith
StartsWith(word, prefix) == prefix \in ScorerLexicon[word].starts

\* RelevanceScorer._is_prefix_match
is_prefix_match(goal_kw, paper_keywords) ==
  \E paper_kw \in paper_keywords :
     /\ StartsWith(paper_kw, goal_kw) \/ StartsWith(goal_kw, paper_kw)
     /\ ScorerLexicon[paper_kw].len - ScorerLexicon[goal_kw].len <= 3

\* RelevanceScorer._score_semantic_keywords, in sixtieths.  The scorer of
\* execute_loop is built without semantic groups, so _is_semantic_match is
\* False throughout.  The goals scored have one, two or three keywords.
score_semantic_keywords(title, snippet, goal) ==
  LET goal_keywords == extract_keywords(goal)
      title_keywords == extract_keywords(title)
      paper_keywords == title_keywords \cup extract_keywords(snippet)
      n == Cardinality(goal_keywords)
      exact == goal_keywords \cap paper_keywords
      prefix == { kw \in goal_keywords \ exact : is_prefix_match(kw, paper_keywords) }
      matched_count == 2 * Cardinality(exact) + Cardinality(prefix)
      title_match_count == 2 * Cardinality(goal_keywords \cap title_keywords)
  IN IF goal_keywords = {} \/ paper_keywords = {} THEN 0
     ELSE LET goal_coverage == Min(60, (30 * matched_count) \div n)
              title_bonus == Min(18, (30 * title_match_count) \div n)
          IN Min(60, goal_coverage + title_bonus)

\* RelevanceScorer._score_recency, in hundredths
score_recency(current_year, year) ==
  LET years_old == current_year - year
  IN IF years_old <= 1 THEN 100
     ELSE IF years_old <= 3 THEN 95
     ELSE IF years_old <= 7 THEN 85
     ELSE IF years_old <= 15 THEN 70
     ELSE IF years_old <= 25 THEN 60
     ELSE 40

\* RelevanceScorer._score_citation_authority, in hundredths
score_citation_authority(citations) ==
  IF citations >= 1000 THEN 100
  ELSE IF citations >= 500 THEN 95
  ELSE IF citations >= 100 THEN 85
  ELSE IF citations >= 50 THEN 70
  ELSE IF citations >= 20 THEN 55
  ELSE IF citations >= 10 THEN 40
  ELSE 20

\* the terms a venue word, as written, contains
VenueTerms ==
  [ NeurIPS |-> {}, IEEE |-> {}, neurips |-> { "neurips" }, naacl |-> { "acl", "naacl" } ]

\* the domain terms a goal word contains
GoalTerms(w) == IF w \in { "transformer", "transformers" } THEN { "transformer" } ELSE {}

premium_venues ==
  { "neurips", "nips", "icml", "iclr", "iccv", "cvpr", "emnlp", "acl", "naacl",
    "aaai", "ijcai", "jmlr" }

\* RelevanceScorer._score_venue_domain, in hundredths
score_venue_domain(venue, goal) ==
  LET inVenue == UNION { VenueTerms[w] : w \in Range(venue) }
      inGoal == UNION { GoalTerms(w) : w \in Range(LowerText(goal)) }
      base == IF inVenue \cap premium_venues # {} THEN 95 ELSE 30
      nlp == IF inGoal \cap { "transformer", "nlp" } = {} THEN base
             ELSE IF inVenue \cap { "acl", "emnlp", "naacl" } # {} THEN 100
             ELSE IF inVenue \cap { "neurips", "icml" } # {} THEN 90
             ELSE base
  IN IF inGoal \cap { "computer vision", "vision" } # {}
        /\ inVenue \cap { "cvpr", "iccv" } # {}
     THEN 100 ELSE nlp

\* the score 1.0 in the unit of the weighted sum
SCORE_ONE == 60000

\* the default of paper.get('year', ...)
DEFAULT_YEAR == 2023

\* RelevanceScorer.score_relevance.  text.lower() of a value that is not a
\* string raises AttributeError; ">=", "-" and "in" on a value of the wrong
\* type raise TypeError.
score_relevance(current_year, paper, goal) ==
  LET title == Get(paper, "title", Str(<<>>))
      year == Get(paper, "year", Num(DEFAULT_YEAR))
      citations == Get(paper, "citations", Num(0))
      venue == Get(paper, "venue", Str(<<>>))
      snippet == Get(paper, "snippet", Str(<<>>))
  IN IF title.type # "str" \/ snippet.type # "str" THEN Raised("AttributeError")
     ELSE IF citations.type # "int" \/ year.type # "int" \/ venue.type # "str"
     THEN Raised("TypeError")
     ELSE LET final_score ==
                700 * score_semantic_keywords(title.s, snippet.s, goal)
                  + 90 * score_citation_authority(citations.n)
                  + 60 * score_recency(current_year, year.n)
                  + 30 * score_venue_domain(venue.s, goal)
          IN Returned(Min(SCORE_ONE, Max(0, final_score)))

\* datetime.now().year when the scorer is built
CurrentYears == { 2024, 2026 }

ScoredGoals == { <<>>, << "transformer", "models" >>, << "model" >> }

\* papers as the search backend's JSON gives them
ScoredPapers ==
  { t @@ sn @@ y @@ c @@ v @@ [url |-> Str(<< "u" >>)] :
      t \in Field("title", { None, Str(<<>>), Str(<< "transformer", "models" >>),
                             Str(<< "the", "modelling", "survey" >>),
                             Str(<< "BERT", "T5", "model" >>) }),
      sn \in Field("snippet", { Str(<< "transformers" >>) }),
      y \in Field("year", { None, Num(2026), Num(2024), Num(2010), Num(1985) }),
      c \in Field("citations", { None, Num(0), Num(50), Num(1000) }),
      v \in Field("venue", { None, Str(<< "NeurIPS" >>), Str(<< "neurips" >>),
                             Str(<< "naacl" >>) }) }

InitScoring ==
  /\ NoJob
  /\ clock \in CurrentYears
  /\ returned = <<>>
  /\ \E paper \in ScoredPapers, goal \in ScoredGoals :
       params = [paper |-> paper, research_goal |-> goal]

ScoreRelevance ==
  /\ returned = <<>>
  /\ returned' = [ fn |-> "score_relevance", k |-> 0,
                   result |-> score_relevance(clock, params.paper, params.research_goal) ]
  /\ UNCHANGED << params, clock, planning, running >>

NextScoring == ScoreRelevance

SpecScoring == InitScoring /\ [][NextScoring]_vars

\* ---------------------------------------------------------------- the tools on their own
\* ToolResult
ToolResult(success, error, data) == [success |-> success, error |-> error, data |-> data]

\* a call of a tool: how it ends and the requests it sent to the backend
ToolCall(outcome, requests) == [outcome |-> outcome, requests |-> requests]

\* str.strip on a text; " " is a run of blanks
RECURSIVE LStrip(_)
LStrip(text) == IF text # <<>> /\ Head(text) = " " THEN LStrip(Tail(text)) ELSE text

RECURSIVE RStrip(_)
RStrip(text) ==
  IF text # <<>> /\ text[Len(text)] = " " THEN RStrip(SubSeq(text, 1, Len(text) - 1)) ELSE text

Strip(text) == RStrip(LStrip(text))

\* int(max_results) of a string, 20 on ValueError; other values pass as they are
MaxResults(v) ==
  IF v.type # "str" THEN v
  ELSE IF v.s = << "10" >> THEN Num(10)
  ELSE Num(20)

\* what the backend answers to a search: a body with results, or httpx raises
SearchResponses ==
  { [kind |-> "json", results |-> rl] : rl \in ResultLists \cup { <<>> } }
    \cup { [kind |-> "httpx.TimeoutException", results |-> <<>>] }

\* what the backend answers to an extraction
ExtractResponses ==
  { [kind |-> "json", extraction_success |-> ok] : ok \in BOOLEAN }
    \cup { [kind |-> "httpx.ConnectError", extraction_success |-> FALSE] }

\* SearchTool.execute.  Every exception is caught and raised again as
\* ToolExecutionError, the AttributeError of strip() on a number included.
SearchTool_execute(p, response) ==
  IF ~Truthy(Get(p, "query", None))
  THEN ToolCall(Returned(ToolResult(FALSE, "MISSING_QUERY", <<>>)), <<>>)
  ELSE IF Get(p, "query", Str(<<>>)).type # "str"
  THEN ToolCall(Raised("ToolExecutionError"), <<>>)
  ELSE LET request == [ endpoint |-> "/api/tools/search",
                        query |-> Strip(p.query.s),
                        max_results |-> MaxResults(Get(p, "max_results", Num(20))) ]
       IN ToolCall(IF response.kind # "json" THEN Raised("ToolExecutionError")
                   ELSE IF response.results = <<>>
                   THEN Returned(ToolResult(FALSE, "NO_RESULTS", <<>>))
                   ELSE Returned(ToolResult(TRUE, "", response.results)),
                   << request >>)

\* ExtractionTool.execute
ExtractionTool_execute(p, response) ==
  IF ~Truthy(Get(p, "source_url", None))
  THEN ToolCall(Returned(ToolResult(FALSE, "MISSING_SOURCE_URL", <<>>)), <<>>)
  ELSE IF Get(p, "source_url", Str(<<>>)).type # "str"
  THEN ToolCall(Raised("ToolExecutionError"), <<>>)
  ELSE LET request == [ endpoint |-> "/api/tools/extract",
                        source_url |-> Strip(p.source_url.s) ]
       IN ToolCall(IF response.kind # "json" THEN Raised("ToolExecutionError")
                   ELSE IF ~response.extraction_success
                   THEN Returned(ToolResult(FALSE, "EXTRACTION_FAILED", <<>>))
                   ELSE Returned(ToolResult(TRUE, "", << "extracted_content" >>)),
                   << request >>)

\* the params dicts the tools are called with
ToolParams ==
  { q @@ mr @@ su :
      q \in Field("query", { None, Str(<<>>), Str(<< " " >>),
                             Str(<< " ", "graph", "routing" >>), Num(0), Num(7) }),
      mr \in Field("max_results", { Num(10), Str(<< "10" >>), Str(<< "many" >>) }),
      su \in { [source_url |-> v] : v \in { Str(<<>>), Str(<< "u1", " " >>) } }
             \cup { [title |-> Str(<< "t" >>)], [source_url |-> None, title |-> Str(<< "t" >>)] } }

Called(fn) == \E k \in DOMAIN returned : returned[k].fn = fn

InitTools ==
  /\ NoJob
  /\ clock = 0
  /\ returned = <<>>
  /\ params \in ToolParams

SearchExecute ==
  /\ ~Called("SearchTool.execute")
  /\ \E response \in SearchResponses :
       returned' = Append(returned, [ fn |-> "SearchTool.execute",
                                      call |-> SearchTool_execute(params, response) ])
  /\ UNCHANGED << params, clock, planning, running >>

ExtractionExecute ==
  /\ ~Called("ExtractionTool.execute")
  /\ \E response \in ExtractResponses :
       returned' = Append(returned, [ fn |-> "ExtractionTool.execute",
                                      call |-> ExtractionTool_execute(params, response) ])
  /\ UNCHANGED << params, clock, planning, running >>

NextTools ==
  \/ SearchExecute
  \/ ExtractionExecute

SpecTools == InitTools /\ [][NextTools]_vars

\* ---------------------------------------------------------------- StateManager.checkpoint on its own
MaxOps == 3

\* state.last_checkpoint = datetime.now()
Stamp(state, t) == ("last_checkpoint" :> t) @@ state

\* storage.save_agent_state(job_id, state.to_dict()): the whole state
\* replaces what agent_state:{job} held
checkpoint_Accumulate(st, state) ==
  ApplyWrite(st, WState([state EXCEPT
                           !.sources_found = st.state.sources_found \o @,
                           !.sources_validated = st.state.sources_validated \o @,
                           !.extractions_complete = st.state.extractions_complete \o @]))

checkpoint(st, state) == ApplyWrite(st, WState(state))

\* the AgentState objects checkpointed: those execute_loop holds between
\* its phases
CheckpointStates ==
  { [NewAgentState EXCEPT !.status = s, !.current_phase = s,
                          !.sources_found = found,
                          !.sources_validated = Take(found, 1),
                          !.extractions_complete =
                             IF s = "EXTRACTING" THEN Take(found, 1) ELSE <<>>] :
      s \in { "SEARCHING", "EXTRACTING" },
      found \in { <<>>, << "G1" >>, << "G1", "G1" >>, << "G1", "G2", "G3" >> } }

\* a state about to be checkpointed for the first time, the keys of its job
\* still empty
InitCheckpoint ==
  /\ NoJob
  /\ clock = 1
  /\ returned = <<>>
  /\ params \in CheckpointStates

\* StateManager.checkpoint(job_id, state); the clock may have moved on
Checkpoint ==
  /\ Len(returned) < MaxOps
  /\ \E t \in { clock, clock + 1 } :
       /\ clock' = t
       /\ params' = Stamp(params, t)
       /\ store' = checkpoint(store, Stamp(params, t))
  /\ returned' = Append(returned, "checkpoint")
  /\ UNCHANGED << planning, research_goal, pc, abortCause, locals, failsLeft,
                  storeWriteFailed, calls >>

\* the job finds one more source: state.sources_found grows
FindSource ==
  /\ Len(returned) < MaxOps
  /\ params' = [params EXCEPT !.sources_found = Append(@, "G2")]
  /\ returned' = Append(returned, "find")
  /\ UNCHANGED << clock, planning, running >>

NextCheckpoint ==
  \/ Checkpoint
  \/ FindSource

SpecCheckpoint == InitCheckpoint /\ [][NextCheckpoint]_vars

\* ---------------------------------------------------------------- properties
LastCall == calls[Len(calls)]

NoToolRaised == \A k \in DOMAIN calls : calls[k].outcome # "raise"

CallsOf(phase, n) == { k \in DOMAIN calls : calls[k].phase = phase /\ calls[k].n = n }

\* the extractions that succeeded so far, in call order
RECURSIVE SucceededExtractions(_)
SucceededExtractions(cs) ==
  IF cs = <<>> THEN <<>>
  ELSE LET c == cs[Len(cs)]
           before == SucceededExtractions(SubSeq(cs, 1, Len(cs) - 1))
       IN IF c.tool = "extract_paper" /\ c.outcome = "ok"
          THEN Append(before, Extraction(validated_sources[c.n]))
          ELSE before

\* positions at which execute_loop issues its next external service call
AtExternalCall == pc \in { "search", "refine_check", "refine", "expand", "extract" }

\* C1: in every checkpointed state, every url of sources_validated occurs
\* among the urls of sources_found of the same state.
C1_ValidatedSubsetOfFound ==
  store.hasState =>
    Urls(store.state.sources_validated) \subseteq Urls(store.state.sources_found)

\* C2: with the store available and every tool call returning a result
\* (results, no results or a failure result), the job is never left by an
\* exception, it can always take its next step, and when execute_loop has
\* returned the checkpointed status is SYNTHESIZING.
C2_AlwaysReachesSynthesizing ==
  (~storeWriteFailed /\ NoToolRaised) =>
    /\ pc # "aborted"
    /\ pc = "synthesize" => store.state.status = "SYNTHESIZING"
    /\ pc # "done" => ENABLED Next

\* C3: a failed planned search (failure result, timeout or connection error)
\* never ends the job, and once the planned pass is over each planned query
\* has been issued exactly once.
C3_PlannedSearchFailureContinues ==
  /\ ~( /\ pc = "aborted"
        /\ abortCause = "ToolExecutionError"
        /\ LastCall.phase = "planned" )
  /\ pc \notin { "start", "plan", "search", "aborted" } =>
       \A q \in 1 .. plan.nq : Cardinality(CallsOf("planned", q)) = 1

\* C4: a failed extraction (failure result, timeout or connection error)
\* never ends the job and adds nothing to extractions_complete, and once the
\* loop is over extraction has been attempted for every validated source.
C4_ExtractionFailureSkips ==
  /\ ~( /\ pc = "aborted"
        /\ abortCause = "ToolExecutionError"
        /\ LastCall.phase = "extract" )
  /\ Len(store.state.extractions_complete) <= Len(SucceededExtractions(calls))
  /\ pc \in { "finish_loop", "synthesize", "save_results", "done" } =>
       \A n \in 1 .. Len(validated_sources) : Cardinality(CallsOf("extract", n)) = 1

\* C5: once a store write of the job has failed the job is aborted: it takes
\* no further step and is never completed.
C5_StoreFailureAborts ==
  storeWriteFailed => pc = "aborted"

\* C6: from one checkpoint to the next the status never moves backwards in
\* the order INITIALIZING .. COMPLETED, and COMPLETED is never left.
C6_StatusOnlyAdvances ==
  [][ /\ Rank(store'.state.status) >= Rank(store.state.status)
      /\ store.state.status = "COMPLETED" => store'.state.status = "COMPLETED" ]_vars

C6_Witness ==
  /\ pc = "done"
  /\ store.state.status = "COMPLETED"
  /\ Len(store.state.extractions_complete) >= 1

\* C7: the checkpointed extractions_complete and the store's extraction list
\* are never longer than the checkpointed sources_validated.
C7_ExtractionsAtMostValidated ==
  /\ Len(store.state.extractions_complete) <= Len(store.state.sources_validated)
  /\ Len(store.extractions) <= Len(store.state.sources_validated)

C7_Witness ==
  /\ Len(store.state.sources_validated) >= 2
  /\ Len(store.extractions) = Len(store.state.sources_validated)
  /\ Len(store.state.extractions_complete) = Len(store.state.sources_validated)

\* C8: whenever the next external service call is about to be issued, every
\* candidate returned so far by a successful planned or refined search is in
\* sources_found of the checkpointed state.
C8_FoundCheckpointedBeforeNextCall ==
  AtExternalCall => Range(all_sources) \subseteq Range(store.state.sources_found)

\* C9: whenever an extraction call is about to be issued, the checkpointed
\* extractions_complete is exactly the list of the extractions that succeeded
\* so far, in order.
C9_ExtractionsCheckpointedBeforeNextCall ==
  pc = "extract" => store.state.extractions_complete = SucceededExtractions(calls)

C9_Witness ==
  /\ pc = "extract"
  /\ Len(store.state.extractions_complete) >= 2
  /\ \E k \in DOMAIN calls : calls[k].tool = "extract_paper" /\ calls[k].outcome = "fail"

\* an audit entry that records the failure of call c
RecordsFailure(e, c) ==
  /\ e.ref = c.n
  /\ \/ c.tool = "extract_paper" /\ e.phase = "EXTRACTING" /\ e.decision = "Extraction failed"
     \/ c.tool = "search_papers" /\ e.phase = "SEARCHING" /\ e.decision = "Search failed"

\* C10: for every search call and every extraction call that failed (by a
\* failure result or by a raised error), the audit trail holds an entry
\* recording that failure, as long as the store itself has not failed.
C10_FailuresAudited ==
  \A k \in DOMAIN calls :
    (calls[k].outcome # "ok" /\ ~storeWriteFailed) =>
      \E a \in DOMAIN store.audit : RecordsFailure(store.audit[a], calls[k])

\* C11: every candidate of the checkpointed sources_validated passed the
\* governance rules (year and citations at or above the policy minimum) and
\* has a relevance score at or above the relevance threshold, whichever
\* search it came from and however batch scoring ended.
C11_ValidatedPassedGovernanceAndRelevance ==
  \A k \in DOMAIN store.state.sources_validated :
     /\ IsValid(store.state.sources_validated[k])
     /\ IsRelevant(store.state.sources_validated[k])

\* C12: when first-pass scoring has ended without an error, the accepted
\* list holds exactly the governance-surviving candidates that score at or
\* above the threshold chosen from the highest score of the batch (0.20 below
\* 0.45, 0.25 below 0.60, 0.35 otherwise).
C12_AdaptiveThresholdRetained ==
  (pc = "expansion_check" /\ ~storeWriteFailed) =>
     LET sources_to_score == validate_all_sources(all_sources)
     IN relevant_sources = Filter(sources_to_score, PassAdaptive(sources_to_score))

\* the audit entry execute_loop writes on entering adaptive refinement
RefinementEntered(st) ==
  \E a \in DOMAIN st.audit :
     /\ st.audit[a].phase = "ADAPTIVE_REFINEMENT"
     /\ st.audit[a].decision = "Insufficient sources"

\* C13: adaptive refinement is entered whenever the planned queries found
\* fewer sources than half of the target (7 or fewer for target 15, 4 or
\* fewer for target 10), and it issues at most 2 further search queries.
C13_RefinementBelowHalfOfTarget ==
  /\ [][ (pc = "refine_check" /\ 2 * Len(all_sources) < plan.max_sources)
           => (RefinementEntered(store') \/ storeWriteFailed') ]_vars
  /\ [](Cardinality({ k \in DOMAIN calls : calls[k].phase = "refined" }) <= 2)

ExpansionCalls == { k \in DOMAIN calls : calls[k].phase = "expansion" }

\* C14: expansion issues at most 2 search queries, and every expansion query
\* is issued while fewer than 5 candidates are accepted: none once the
\* accepted list has reached 5, and none at all when first-pass scoring
\* accepted 5 or more.
C14_ExpansionBounded ==
  /\ [](Cardinality(ExpansionCalls) <= 2)
  /\ [][ (Len(calls') > Len(calls) /\ calls'[Len(calls')].phase = "expansion")
           => Len(relevant_sources) < 5 ]_vars

\* the expansion loop stopped after its first query, the second one unused
C14_Witness ==
  /\ pc = "save_validated"
  /\ Len(ExpansionQueries(research_goal)) = 2
  /\ Cardinality(ExpansionCalls) = 1
  /\ Len(relevant_sources) >= 5

\* the merge the claim describes: a scored-in candidate is appended unless a
\* candidate with its url is already accepted
RECURSIVE MergeByUrl(_, _)
MergeByUrl(rel, new) ==
  IF new = <<>> THEN rel
  ELSE LET s == Head(new)
       IN MergeByUrl(IF IsRelevant(s) /\ Paper[s].url \notin Urls(rel)
                     THEN Append(rel, s) ELSE rel, Tail(new))

\* C15: a successful expansion search leaves the accepted list as the merge
\* by url of the list it returned: a candidate is merged only if its url is
\* not yet accepted, is never rejected as a duplicate otherwise, and no url is
\* added a second time.
C15_ExpansionMergesByUrl ==
  [][ (pc = "expand" /\ pc' # "aborted" /\ calls'[Len(calls')].outcome = "ok")
       => \E rl \in ResultLists :
             relevant_sources' = MergeByUrl(relevant_sources, rl) ]_vars

ExtractionIssued == \E k \in DOMAIN calls : calls[k].tool = "extract_paper"

\* C16: the checkpointed sources_validated never has more entries than the
\* plan's max_sources, and whenever an extraction call is about to be or has
\* been issued it is exactly the first max_sources entries of the accepted
\* list, in order.
C16_ValidatedIsCappedPrefix ==
  /\ Len(store.state.sources_validated) <= plan.max_sources
  /\ (pc = "extract" \/ ExtractionIssued) =>
       /\ Len(relevant_sources) >= plan.max_sources
            => store.state.sources_validated = SubSeq(relevant_sources, 1, plan.max_sources)
       /\ Len(relevant_sources) < plan.max_sources
            => store.state.sources_validated = relevant_sources

C16_Witness ==
  /\ ExtractionIssued
  /\ Len(relevant_sources) > plan.max_sources
  /\ Len(store.state.sources_validated) = plan.max_sources

AllSearchesEmpty ==
  \A k \in DOMAIN calls : calls[k].tool = "search_papers" => calls[k].outcome = "fail"

ExpansionEntered(st) ==
  \E a \in DOMAIN st.audit : st.audit[a].phase = "SEARCH_EXPANSION"

\* C17: while every search query so far returned no results and the store
\* is available, no exception leaves the job and it can always take its next
\* step; when execute_loop has returned the status is SYNTHESIZING, and from
\* the COMPLETED checkpoint on the status is COMPLETED, sources_validated and
\* extractions_complete are empty, and both the refinement and the expansion
\* sub-loop have been entered.
C17_NoResultsCompletesEmpty ==
  (AllSearchesEmpty /\ ~storeWriteFailed) =>
    /\ pc # "aborted"
    /\ pc # "done" => ENABLED Next
    /\ pc = "synthesize" => store.state.status = "SYNTHESIZING"
    /\ pc \in { "save_results", "done" } =>
         /\ store.state.status = "COMPLETED"
         /\ store.state.sources_validated = <<>>
         /\ store.state.extractions_complete = <<>>
         /\ RefinementEntered(store)
         /\ ExpansionEntered(store)

C17_Witness ==
  /\ pc = "done"
  /\ AllSearchesEmpty
  /\ ~storeWriteFailed
  /\ \E k \in DOMAIN calls : calls[k].phase = "planned"
  /\ \E k \in DOMAIN calls : calls[k].phase = "refined"
  /\ Cardinality(ExpansionCalls) = 2

\* the text generation failed, or answered with an empty or malformed list
GenerationFailed(r) ==
  \/ r.kind = "raise"
  \/ r.kind # "none" /\ r.queries = <<>>
  \/ \E k \in DOMAIN r.queries : r.queries[k] = <<>>

\* C18: when text generation failed during planning, or answered with an
\* empty or malformed list, the plan holds the queries of the deterministic
\* heuristic for the job's goal (which depend on the goal alone), and they
\* are not empty for a goal that is not empty.
C18_FallbackPlanIsHeuristic ==
  \A j \in DOMAIN jobs :
     (jobs[j].pc # "submitted" /\ GenerationFailed(jobs[j].llm)) =>
        /\ jobs[j].queries = decompose_goal_heuristic(jobs[j].goal)
        /\ jobs[j].goal # <<>> => jobs[j].queries # <<>>

NoDuplicates(seq) == \A a, b \in DOMAIN seq : seq[a] = seq[b] => a = b

PlannedByHeuristic(j) ==
  /\ jobs[j].pc = "planned"
  /\ jobs[j].llm.kind = "raise" \/ jobs[j].llm.queries \in { <<>>, << <<>> >> }

C20_JobsShareNoKeys ==
  /\ \A j \in DOMAIN jobs : \A key \in jobs[j].reads \cup jobs[j].writes : key.id = j
  /\ \A a, b \in DOMAIN jobs :
        a # b => (jobs[a].reads \cup jobs[a].writes) \cap jobs[b].writes = {}
  /\ \A j \in DOMAIN jobs :
        jobs[j].pc # "submitted" =>
           jobs[j].queries = AdaptiveQueries(jobs[j].goal, jobs[j].llm, <<>>)

\* list a is an initial part of list b
IsPrefix(a, b) == Len(a) <= Len(b) /\ SubSeq(b, 1, Len(a)) = a

\* C26: governance validation, relevance scoring and every expansion search
\* are carried out with the checkpointed status already VALIDATING, never
\* while it is still SEARCHING.
C26_ValidatingBeforeValidation ==
  [][ (pc \in { "validate", "expand" })
        => (store.hasState /\ store.state.status = "VALIDATING") ]_vars

\* C27: the discovered sources of a job only grow: at every step the
\* checkpointed sources_found and the store's sources list are initial parts
\* of what they are after the step.
C27_DiscoveredSourcesAppendOnly ==
  [][ IsPrefix(store.state.sources_found, store'.state.sources_found)
        /\ IsPrefix(store.sources, store'.sources) ]_vars

\* C29: whenever the checkpointed status is COMPLETED the results of the job
\* are in the store.
C29_CompletedHasResults ==
  (store.hasState /\ store.state.status = "COMPLETED") => store.results

\* no two entries of the list carry the same url
NoDuplicateUrls(seq) ==
  \A a, b \in DOMAIN seq : a # b => Paper[seq[a]].url # Paper[seq[b]].url

\* C30: the checkpointed sources_validated holds no url twice, and no two
\* extraction calls of the job are for the same url.
C30_ValidatedUrlsDistinct ==
  /\ NoDuplicateUrls(store.state.sources_validated)
  /\ \A a, b \in DOMAIN calls :
        (a # b /\ calls[a].tool = "extract_paper" /\ calls[b].tool = "extract_paper")
           => Paper[validated_sources[calls[a].n]].url
                # Paper[validated_sources[calls[b].n]].url

\* a source dict with a string url and numbers for year and citations
WellFormed(c) ==
  /\ Get(c, "url", None).type = "str"
  /\ Get(c, "year", None).type = "int"
  /\ Get(c, "citations", None).type = "int"

CalledFn(fn) == returned # <<>> /\ returned.fn = fn

\* C23: for a candidate with a year and a citation count, validate_source
\* reports the age violation exactly when the year is below min_year and the
\* citation violation exactly when the count is below min_citations, each
\* whatever the other does; is_valid holds exactly when nothing is reported;
\* the confidence is 1.0 less 0.3 for each violation and never negative.
C23_ValidateSourceRules ==
  (CalledFn("validate_source") /\ WellFormed(params.sources[returned.k])) =>
     LET c == params.sources[returned.k]
         r == returned.result
     IN /\ r.kind = "return"
        /\ ("Publication too old" \in Range(r.value.violations))
              <=> (c.year.n < params.policies.min_year)
        /\ ("Low citations" \in Range(r.value.violations))
              <=> (c.citations.n < params.policies.min_citations)
        /\ Len(r.value.violations) = Cardinality(Range(r.value.violations))
        /\ r.value.is_valid <=> (r.value.violations = <<>>)
        /\ r.value.confidence_score = 100 - 30 * Len(r.value.violations)
        /\ r.value.confidence_score >= 0

\* both checks fire for one candidate
C23_Witness ==
  /\ CalledFn("validate_source")
  /\ WellFormed(params.sources[returned.k])
  /\ returned.result.kind = "return"
  /\ Len(returned.result.value.violations) = 2
  /\ returned.result.value.confidence_score = 40

PassesGovernance(c) ==
  LET r == SourceValidator_validate_source(params.policies, c)
  IN r.kind = "return" /\ r.value.is_valid

\* C24: validate_all_sources returns the sources of its input that
\* validate_source accepts, each as often as the input has it and in the
\* order of the input; it returns whenever every source is well formed.
C24_ValidateAllKeepsOrder ==
  CalledFn("validate_all_sources") =>
     /\ (\A k \in DOMAIN params.sources : WellFormed(params.sources[k]))
           => returned.result.kind = "return"
     /\ returned.result.kind = "return"
           => returned.result.value = SelectSeq(params.sources, PassesGovernance)

\* two different sources pass
C24_Witness ==
  /\ CalledFn("validate_all_sources")
  /\ returned.result.kind = "return"
  /\ Len(returned.result.value) = 2
  /\ returned.result.value[1] # returned.result.value[2]

\* C22: score_relevance returns, and what it returns lies between 0 and 1,
\* for every goal and every paper whose title is a text or absent: empty
\* title, year, citation count or venue absent or null included.
C22_ScoreInUnitInterval ==
  (CalledFn("score_relevance") /\ Get(params.paper, "title", Str(<<>>)).type = "str") =>
     /\ returned.result.kind = "return"
     /\ returned.result.value >= 0
     /\ returned.result.value <= SCORE_ONE

\* the dict has no value under the key: the key is absent or holds null
NoValue(d, key) == Get(d, key, None) = None

\* the dict with the value under the key
WithValue(d, key, v) == (key :> v) @@ d

\* C28: a paper without a year is scored as the same paper published in the
\* current year, and a paper without a citation count as the same paper
\* with 0 citations, whenever that paper can be scored at all.
C28_MissingValuesDefault ==
  CalledFn("score_relevance") =>
     LET asCurrent == score_relevance(clock, WithValue(params.paper, "year", Num(clock)),
                                      params.research_goal)
         asUncited == score_relevance(clock, WithValue(params.paper, "citations", Num(0)),
                                      params.research_goal)
     IN /\ (NoValue(params.paper, "year") /\ asCurrent.kind = "return")
              => returned.result = asCurrent
        /\ (NoValue(params.paper, "citations") /\ asUncited.kind = "return")
              => returned.result = asUncited

\* the params give nothing under the key: the key is absent, null or the
\* empty string
Missing(key) == Get(params, key, None) \in { None, Str(<<>>) }

\* C25: SearchTool.execute without a query returns the failure MISSING_QUERY
\* and ExtractionTool.execute without a source_url returns the failure
\* MISSING_SOURCE_URL; neither raises and neither sends a request to the
\* backend.
C25_MissingArgumentRejected ==
  \A k \in DOMAIN returned :
     /\ (returned[k].fn = "SearchTool.execute" /\ Missing("query")) =>
           /\ returned[k].call.outcome = Returned(ToolResult(FALSE, "MISSING_QUERY", <<>>))
           /\ returned[k].call.requests = <<>>
     /\ (returned[k].fn = "ExtractionTool.execute" /\ Missing("source_url")) =>
           /\ returned[k].call.outcome = Returned(ToolResult(FALSE, "MISSING_SOURCE_URL", <<>>))
           /\ returned[k].call.requests = <<>>

\* both tools have been called with params that hold an empty query and no
\* source_url
C25_Witness ==
  /\ Called("SearchTool.execute")
  /\ Called("ExtractionTool.execute")
  /\ "query" \in DOMAIN params
  /\ params.query = Str(<<>>)
  /\ "source_url" \notin DOMAIN params

\* a state without its last_checkpoint
Unstamped(state) == [k \in DOMAIN state \ { "last_checkpoint" } |-> state[k]]

\* the last operation on the state was a checkpoint and so is this one
CheckpointedAgain ==
  /\ returned # <<>>
  /\ returned[Len(returned)] = "checkpoint"
  /\ returned' = Append(returned, "checkpoint")

\* C21: a checkpoint of the state that was checkpointed just before leaves
\* every key of the job as it was, the stored state too apart from its
\* last_checkpoint; the stored lists are the lists of the state, with
\* nothing added.
C21_CheckpointIdempotent ==
  [][ CheckpointedAgain =>
        /\ Unstamped(store'.state) = Unstamped(store.state)
        /\ [store' EXCEPT !.state = NewAgentState] = [store EXCEPT !.state = NewAgentState]
        /\ store'.state.sources_found = params.sources_found
        /\ store'.state.sources_validated = params.sources_validated
        /\ store'.state.extractions_complete = params.extractions_complete ]_vars

\* a state with sources and an extraction has been checkpointed twice in a
\* row, at two different times
C21_Witness ==
  /\ Len(returned) >= 2
  /\ returned[Len(returned)] = "checkpoint"
  /\ returned[Len(returned) - 1] = "checkpoint"
  /\ store.hasState
  /\ store.state.sources_found # <<>>
  /\ store.state.extractions_complete # <<>>
  /\ store.state.last_checkpoint = 2

====
